---- MODULE Spec2Model ----
(***************************************************************************)
(* Model of the NHK weather report pipeline:                               *)
(*   nhk_weather/services/ai.py        DeepSeekClient (translate, rephrase)*)
(*   nhk_weather/services/telegram.py  TelegramClient (delivery, close)    *)
(*   nhk_weather/services/browser.py   BrowserScraper.process              *)
(*   run.py                            WeatherReporter.run, main           *)
(*                                                                         *)
(* Text is modelled as a sequence of characters.  TLA+ strings are ASCII,  *)
(* so a Cyrillic letter is written as its Latin transliteration ("T","o"), *)
(* a non-Cyrillic glyph (kanji, Latin, digit) as "#", whitespace as " ",   *)
(* U+FEFF as "bom".                                                        *)
(* Source terms (the Japanese names) are only compared and tested for      *)
(* emptiness, so each is one opaque ASCII string: "Tokyo" stands for       *)
(* the term 東京, "" is the empty term.                                    *)
(***************************************************************************)
EXTENDS Naturals, Integers, Sequences, FiniteSets, TLC

VARIABLES
    CITY_TRANSLATIONS,  \* ai.py module-level cache: term -> Russian text
    tpc,                \* translate: "idle" | "chat" | "returned" | "raised"
    jp_terms,           \* translate: the argument list
    attempt,            \* translate: local attempt
    missing,            \* translate: local missing (list of terms)
    result,             \* translate: local result (dict)
    output,             \* translate: the mapping the call returned (none yet: empty)
    cacheAtCall,        \* history: CITY_TRANSLATIONS when the call began
    chatCalls,          \* history: chat calls made by the current translate call
    rejected,           \* history: the current call put a candidate into bad
    chatErrors,         \* history: chat calls of the current call that raised
    parse_failed,       \* history: the last round found no JSON object to load
    accepted,           \* history: the current call put a candidate into good
    bot,                \* TelegramClient._bot: "None" | "Bot"
    dpc,                \* send_weather_report: "idle" | the send awaited | "done"
    d_summary,          \* send_weather_report: argument summary
    d_photo,            \* send_weather_report: argument photo_bytes
    report_result,      \* send_weather_report: local result, the value returned
    sendCalls,          \* history: send_photo / send_message calls of this report
    transport,          \* history: calls of this report into the Bot API
    channel,            \* history: messages the chat has received
    reports,            \* history: send_weather_report calls so far
    closeCalls,         \* history: TelegramClient.close calls so far
    closing,            \* close calls that await session.close() (line 124)
    pc,                 \* main / run / process: the call awaited; "exited" when
                        \* main returned or called sys.exit, "crashed" when an
                        \* exception left it
    raw_data,           \* process: the scraped tiles
    tiles_found,        \* history: the tile count process logged (-1: none yet)
    dom_ok,             \* process: what replace_city_names returned
    verify_i,           \* replace_city_names: re-reads done (the loop's i)
    name_reads,         \* history: the name texts each read of the open page gave
    screenshot,         \* process: the screenshot bytes
    weather_data,       \* run: the CityWeather records
    processed_data,     \* run: the records with their condition
    payload,            \* build_weather_summary: the payload sent as user turn
    initial_summary,    \* run: the draft summary
    summary,            \* run: the rephrased summary
    run_result,         \* run: the value of its return statement
    exit_status,        \* main: the exit status of the process (-1: running)
    trace,              \* history: the capability calls of the run, in order
    c_alt,              \* _categorize_weather: the argument alt
    c_condition,        \* the value _categorize_weather returned for c_alt
    c_recondition,      \* the value it returned when applied to c_condition
    c_apps,             \* applications of _categorize_weather so far (0..2)
    dict,               \* REPLACE_CITY_NAMES_JS: the argument dict
    el_rendered,        \* the text the page renders into each name element
    el_textContent,     \* el.textContent of each name element
    el_jpName,          \* el.dataset.jpName of each name element (<<>>: unset)
    cont,               \* the map container exists in the document
    ruObserver,         \* cont.__ruObserver is set
    observers,          \* history: MutationObservers attached to the container
    pending,            \* mutation records wait for the observer callback
    script_runs,        \* history: evaluations of REPLACE_CITY_NAMES_JS
    applies,            \* history: executions of apply()
    writes,             \* history: el.textContent writes of the last apply()
    text_first,         \* history: the texts after the first apply()
    renders             \* history: times the page rendered a name element anew

tvars == <<CITY_TRANSLATIONS, tpc, jp_terms, attempt, missing, result, output,
           cacheAtCall, chatCalls, rejected, chatErrors,
           parse_failed, accepted>>

dvars == <<bot, dpc, d_summary, d_photo, report_result, sendCalls, transport,
           channel, reports, closeCalls, closing>>

rvars == <<pc, raw_data, tiles_found, dom_ok, verify_i, name_reads, screenshot, weather_data,
           processed_data, payload, initial_summary, summary, run_result,
           exit_status, trace>>

cvars == <<c_alt, c_condition, c_recondition, c_apps>>

ivars == <<dict, el_rendered, el_textContent, el_jpName, cont, ruObserver,
           observers, pending, script_runs, applies, writes, text_first, renders>>

vars == <<tvars, dvars, rvars, cvars, ivars>>

-----------------------------------------------------------------------------
(* Bounds of the model *)

MaxTerms == 2       \* longest jp_terms list passed to translate
MaxReports == 2     \* send_weather_report calls on one TelegramClient
MaxTiles == 2       \* most tiles the page yields
MaxPieces == 2      \* most pieces of an icon text given to _categorize_weather
MaxRuns == 2        \* evaluations of the injection script on one page
MaxApplies == 3     \* executions of apply() followed on one page
MaxRenders == 2     \* times the page renders a name element anew

-----------------------------------------------------------------------------
(* Text *)

\* re.compile(r"[А-ЯЁа-яё]"): the letters that occur in the model's texts.
CyrillicChars ==
    {"A", "F", "H", "K", "M", "N", "O", "S", "T",
     "a", "b", "ch", "d", "e", "g", "h", "i", "j", "k", "l", "m", "n", "o", "p",
     "r", "s", "soft", "t", "ts", "u", "v", "ya", "z", "zh"}

Whitespace == {" "}

\* self._cyrillic_re.search(s) is not None
HasCyrillic(s) == \E i \in 1..Len(s) : s[i] \in CyrillicChars

RECURSIVE LStrip(_)
LStrip(s) == IF s # <<>> /\ Head(s) \in Whitespace THEN LStrip(Tail(s)) ELSE s

RECURSIVE RStrip(_)
RStrip(s) ==
    IF s # <<>> /\ s[Len(s)] \in Whitespace
    THEN RStrip(SubSeq(s, 1, Len(s) - 1))
    ELSE s

\* str.strip()
Strip(s) == RStrip(LStrip(s))

-----------------------------------------------------------------------------
(* Dictionaries *)

EmptyMap == [k \in {} |-> <<>>]

\* dict.update(e)
DictUpdate(d, e) ==
    [k \in DOMAIN d \cup DOMAIN e |-> IF k \in DOMAIN e THEN e[k] ELSE d[k]]

\* dict.get(k, default)
DictGet(d, k, default) == IF k \in DOMAIN d THEN d[k] ELSE default

\* set(list)
Range(s) == {s[i] : i \in 1..Len(s)}

\* A term as the text it is when used as a value (the identity fallback
\* CITY_TRANSLATIONS.get(t, t)): a source term holds no Cyrillic letter.
TermText(t) == IF t = "" THEN <<>> ELSE <<"#", t>>

\* The seed table, ai.py lines 52-70.
SeedTable ==
    {<<"Tokyo",     <<"T","o","k","i","o">>>>,                 \* 東京 Токио
     <<"Nagano",    <<"N","a","g","a","n","o">>>>,             \* 長野 Нагано
     <<"Niigata",   <<"N","i","i","g","a","t","a">>>>,         \* 新潟 Ниигата
     <<"Ogasawara", <<"O","g","a","s","a","v","a","r","a">>>>, \* 小笠原 Огасавара
     <<"Osaka",     <<"O","s","a","k","a">>>>,                 \* 大阪 Осака
     <<"Nagoya",    <<"N","a","g","o","ya">>>>,                \* 名古屋 Нагоя
     <<"Kanazawa",  <<"K","a","n","a","d","z","a","v","a">>>>, \* 金沢 Канадзава
     <<"Hiroshima", <<"H","i","r","o","s","i","m","a">>>>,     \* 広島 Хиросима
     <<"Matsue",    <<"M","a","ts","u","e">>>>,                \* 松江 Мацуэ
     <<"Fukuoka",   <<"F","u","k","u","o","k","a">>>>,         \* 福岡 Фукуока
     <<"Kagoshima", <<"K","a","g","o","s","i","m","a">>>>,     \* 鹿児島 Кагосима
     <<"Naha",      <<"N","a","h","a">>>>,                     \* 那覇 Наха
     <<"Sendai",    <<"S","e","n","d","a","j">>>>,             \* 仙台 Сэндай
     <<"Akita",     <<"A","k","i","t","a">>>>,                 \* 秋田 Акита
     <<"Sapporo",   <<"S","a","p","p","o","r","o">>>>,         \* 札幌 Саппоро
     <<"Kushiro",   <<"K","u","s","i","r","o">>>>,             \* 釧路 Кусиро
     <<"Kochi",     <<"K","o","t","i">>>>}                     \* 高知 Коти

SeedKeys == {p[1] : p \in SeedTable}

SeedTranslations ==
    [k \in SeedKeys |-> (CHOOSE p \in SeedTable : p[1] = k)[2]]

-----------------------------------------------------------------------------
(* The generation capability's answers to a translation round *)

\* JSON values of the response object: a string, or a number (a truthy
\* value that is no string).
JStr(s) == [t |-> "str", s |-> s]
JNum    == [t |-> "num", s |-> <<>>]

JsonValues ==
    {JStr(<<>>),                 \* ""
     JStr(<<"#">>),              \* the term left untranslated
     JStr(<<" ", "K", "o", " ">>),   \* a Cyrillic text in surrounding whitespace
     JNum}

\* Python truthiness of a JSON value
Truthy(v) == IF v.t = "str" THEN v.s # <<>> ELSE TRUE

\* Terms: the empty term, a seeded one, two unknown ones (神戸, 奈良).
TermUniverse == {"", "Tokyo", "Kobe", "Nara"}

\* Keys a response object may hold.
RespKeys == {"Tokyo", "Kobe"}

\* The keys of an object in the order of its text, which is the order
\* data.items() yields them in.
KeyOrders ==
    {ks \in UNION {[1..n -> RespKeys] : n \in 0..Cardinality(RespKeys)} :
        \A i, j \in 1..Len(ks) : i # j => ks[i] # ks[j]}

\* json.loads of the slice: the items <<key, value>> of the object, in order.
JsonObjects ==
    UNION {{[i \in 1..Len(ks) |-> <<ks[i], vs[i]>>] :
               vs \in [1..Len(ks) -> JsonValues]} : ks \in KeyOrders}

\* What chat() gives: it raises, or returns a text.  Of a text the code
\* reads resp.find("{"), resp.rfind("}") and json.loads of the slice.
ChatRaises == [raises |-> TRUE,  start |-> -1, end |-> -1, valid |-> FALSE, data |-> <<>>]
ChatText(st, en, ok, obj) ==
    [raises |-> FALSE, start |-> st, end |-> en, valid |-> ok, data |-> obj]

TranslateResponses ==
    {ChatRaises}
    \cup {ChatText(d[1], d[2], FALSE, <<>>) :
            d \in {<<-1, -1>>,     \* no brace at all
                   <<0, -1>>,      \* "{" only
                   <<-1, 0>>,      \* "}" only
                   <<1, 0>>,       \* "}{"
                   <<0, 3>>}}      \* braces around text that is no JSON
    \cup {ChatText(2, 9, TRUE, obj) : obj \in JsonObjects}

-----------------------------------------------------------------------------
(* DeepSeekClient.translate, ai.py lines 143-196 *)

max_retries == 2

\* Faulty variant of ToDo: the cache is not looked at.
ToDoIgnoresCache(terms, cache) ==
    SelectSeq(terms, LAMBDA t : t # "")

\* [t for t in jp_terms if t and t not in CITY_TRANSLATIONS]
ToDo(terms, cache) ==
    SelectSeq(terms, LAMBDA t : t # "" /\ t \notin DOMAIN cache)

\* {t: CITY_TRANSLATIONS.get(t, t) for t in jp_terms}
ReturnMapping(terms, cache) ==
    [t \in Range(terms) |-> DictGet(cache, t, TermText(t))]

\* Faulty variant of Accepted: the script test is left out.
AcceptedAnyText(v) == Truthy(v) /\ v.t = "str"

\* if ru and self._cyrillic_re.search(ru)
Accepted(v) == Truthy(v) /\ HasCyrillic(v.s)

\* re.search on a value that is no string raises TypeError
RaisesTypeError(data) ==
    \E i \in 1..Len(data) : Truthy(data[i][2]) /\ data[i][2].t # "str"

\* good[jp] = ru.strip()
Good(data) ==
    [k \in {data[i][1] : i \in {j \in 1..Len(data) : Accepted(data[j][2])}} |->
        Strip((CHOOSE p \in Range(data) : p[1] = k)[2].s)]

\* bad.append(jp), in the order of data.items()
Bad(data) ==
    LET no == SelectSeq(data, LAMBDA p : ~Accepted(p[2]))
    IN  [i \in 1..Len(no) |-> no[i][1]]

TermLists == UNION {[1..n -> TermUniverse] : n \in 0..MaxTerms}

\* Faulty variant of WhileTest: the attempts are counted one too far.
WhileTestOffByOne(m, att) == m # <<>> /\ att <= max_retries + 1

\* line 159: while missing and attempt <= max_retries
WhileTest(m, att) == m # <<>> /\ att <= max_retries

\* translate is entered: lines 151-157, up to the first chat call.
TranslateEnter(terms) ==
    /\ tpc # "chat"
    /\ jp_terms' = terms
    /\ cacheAtCall' = CITY_TRANSLATIONS
    /\ chatCalls' = 0
    /\ rejected' = FALSE
    /\ chatErrors' = 0
    /\ parse_failed' = FALSE
    /\ accepted' = FALSE
    /\ IF ~WhileTest(ToDo(terms, CITY_TRANSLATIONS), 0)
       THEN /\ tpc' = "returned"
            /\ output' = ReturnMapping(terms, CITY_TRANSLATIONS)
            /\ attempt' = 0
            /\ missing' = <<>>
            /\ result' = EmptyMap
            /\ UNCHANGED CITY_TRANSLATIONS
       ELSE /\ tpc' = "chat"
            /\ attempt' = 1
            /\ missing' = ToDo(terms, CITY_TRANSLATIONS)
            /\ result' = EmptyMap
            /\ output' = EmptyMap
            /\ UNCHANGED CITY_TRANSLATIONS

\* Faulty variant of EndOfRound: the accepted translations are written to the
\* cache at the end of every round.
EndOfRoundCommitsEarly(m, res) ==
    IF WhileTest(m, attempt)
    THEN /\ tpc' = "chat"
         /\ attempt' = attempt + 1
         /\ missing' = m
         /\ result' = res
         /\ CITY_TRANSLATIONS' = DictUpdate(CITY_TRANSLATIONS, res)
         /\ UNCHANGED output
    ELSE /\ tpc' = "returned"
         /\ CITY_TRANSLATIONS' = DictUpdate(CITY_TRANSLATIONS, res)
         /\ output' = ReturnMapping(jp_terms, CITY_TRANSLATIONS')
         /\ attempt' = 0
         /\ missing' = <<>>
         /\ result' = EmptyMap

\* The rest of a round after the response was handled: the while test of
\* line 159, and when it fails lines 191-196.  The identity writes of lines
\* 193-194 go to the local result, which line 196 does not read; the locals
\* end with the call.
EndOfRound(m, res) ==
    IF WhileTest(m, attempt)
    THEN /\ tpc' = "chat"
         /\ attempt' = attempt + 1
         /\ missing' = m
         /\ result' = res
         /\ UNCHANGED <<CITY_TRANSLATIONS, output>>
    ELSE /\ tpc' = "returned"
         /\ CITY_TRANSLATIONS' = DictUpdate(CITY_TRANSLATIONS, res)
         /\ output' = ReturnMapping(jp_terms, CITY_TRANSLATIONS')
         /\ attempt' = 0
         /\ missing' = <<>>
         /\ result' = EmptyMap

\* An exception leaves translate: its locals are gone, the cache is as it was.
Propagate ==
    /\ tpc' = "raised"
    /\ attempt' = 0
    /\ missing' = <<>>
    /\ result' = EmptyMap
    /\ UNCHANGED <<CITY_TRANSLATIONS, output>>

\* chat raises (lines 134-141): nothing in translate catches it.
TranslateChatRaises ==
    /\ tpc = "chat"
    /\ chatCalls' = chatCalls + 1
    /\ chatErrors' = chatErrors + 1
    /\ parse_failed' = FALSE
    /\ Propagate
    /\ UNCHANGED <<jp_terms, cacheAtCall, rejected, accepted>>

\* lines 171-172, 188-189: no JSON object delimiters in the response.
TranslateNoJson(r) ==
    /\ tpc = "chat"
    /\ ~r.raises
    /\ ~(r.start >= 0 /\ r.end > r.start)
    /\ chatCalls' = chatCalls + 1
    /\ parse_failed' = TRUE
    /\ EndOfRound(missing, result)
    /\ UNCHANGED <<jp_terms, cacheAtCall, rejected, chatErrors, accepted>>

\* Faulty variant of TranslateBadJson: JSONDecodeError is not caught.
TranslateBadJsonRaises(r) ==
    /\ tpc = "chat"
    /\ ~r.raises
    /\ r.start >= 0 /\ r.end > r.start
    /\ ~r.valid
    /\ chatCalls' = chatCalls + 1
    /\ parse_failed' = TRUE
    /\ Propagate
    /\ UNCHANGED <<jp_terms, cacheAtCall, rejected, chatErrors, accepted>>

\* lines 174, 186-187: json.loads raises JSONDecodeError.
TranslateBadJson(r) ==
    /\ tpc = "chat"
    /\ ~r.raises
    /\ r.start >= 0 /\ r.end > r.start
    /\ ~r.valid
    /\ chatCalls' = chatCalls + 1
    /\ parse_failed' = TRUE
    /\ EndOfRound(missing, result)
    /\ UNCHANGED <<jp_terms, cacheAtCall, rejected, chatErrors, accepted>>

\* line 178: a truthy value that is no string; TypeError leaves translate.
TranslateTypeError(r) ==
    /\ tpc = "chat"
    /\ ~r.raises
    /\ r.start >= 0 /\ r.end > r.start
    /\ r.valid
    /\ RaisesTypeError(r.data)
    /\ chatCalls' = chatCalls + 1
    /\ parse_failed' = FALSE
    /\ Propagate
    /\ UNCHANGED <<jp_terms, cacheAtCall, rejected, chatErrors, accepted>>

\* lines 174-185: the object is parsed and its entries sorted into good and bad.
TranslateParsed(r) ==
    /\ tpc = "chat"
    /\ ~r.raises
    /\ r.start >= 0 /\ r.end > r.start
    /\ r.valid
    /\ ~RaisesTypeError(r.data)
    /\ chatCalls' = chatCalls + 1
    /\ EndOfRound(Bad(r.data), DictUpdate(result, Good(r.data)))
    /\ rejected' = (rejected \/ Bad(r.data) # <<>>)
    /\ accepted' = (accepted \/ Good(r.data) # EmptyMap)
    /\ parse_failed' = FALSE
    /\ UNCHANGED <<jp_terms, cacheAtCall, chatErrors>>

TranslateRound ==
    \/ TranslateChatRaises
    \/ \E r \in TranslateResponses :
        \/ TranslateNoJson(r)
        \/ TranslateBadJson(r)
        \/ TranslateTypeError(r)
        \/ TranslateParsed(r)

-----------------------------------------------------------------------------
(* TelegramClient, telegram.py *)

\* An Optional argument: <<>> is None, <<x>> is the value x.
None == <<>>
Some(x) == <<x>>

\* The three sends of send_weather_report, by the position that awaits them.
Combined  == "combined"      \* line 106: send_photo(photo_bytes, caption=summary)
PhotoOnly == "photo_only"    \* line 110: send_photo(photo_bytes)
TextOnly  == "text_only"     \* line 111: send_message(text=summary)

\* The call a step makes: the method and its arguments.
MethodCall(step, sm, img) ==
    IF step = Combined
    THEN [op |-> "send_photo", photo |-> Some(img), text |-> Some(sm)]
    ELSE IF step = PhotoOnly
    THEN [op |-> "send_photo", photo |-> Some(img), text |-> None]
    ELSE [op |-> "send_message", photo |-> None, text |-> Some(sm)]

\* send_photo line 81 (if not photo_bytes) and send_message line 54
\* (if not text): the method returns False without touching the Bot.
ShortCircuits(call) ==
    IF call.op = "send_photo" THEN call.photo = Some("") ELSE call.text = Some("")

\* line 108: if not result and summary
FallbackTaken(res, sm) == ~res /\ sm # ""

\* Faulty variant of ResultAfterFallback: the fallback reports what its sends returned.
ResultOfFallbackSends(photoRet, textRet) == photoRet /\ textRet

\* line 112: result = True
ResultAfterFallback(photoRet, textRet) == TRUE

Returned(call, ret) == [call |-> call, ret |-> ret]

\* The state of one send_weather_report call.
ReportState ==
    [pc |-> dpc, result |-> report_result, calls |-> sendCalls,
     transport |-> transport, bot |-> bot]

RECURSIVE StartSend(_, _, _, _)
RECURSIVE AfterSend(_, _, _, _, _)

\* A method is called: it returns False at once, or it gets the Bot
\* (_get_bot, lines 42-44) and awaits the Bot API.
StartSend(step, sm, img, st) ==
    LET call == MethodCall(step, sm, img) IN
    IF ShortCircuits(call)
    THEN AfterSend(step, FALSE, sm, img,
                   [st EXCEPT !.calls = Append(@, Returned(call, FALSE))])
    ELSE [st EXCEPT !.pc = step,
                    !.bot = "Bot",
                    !.transport = Append(@, call)]

\* A method has returned ret: the rest of send_weather_report up to the
\* next await or to its return (lines 106-114).
AfterSend(step, ret, sm, img, st) ==
    IF step = Combined
    THEN IF FallbackTaken(ret, sm)
         THEN StartSend(PhotoOnly, sm, img, [st EXCEPT !.result = ret])
         ELSE [st EXCEPT !.pc = "done", !.result = ret]
    ELSE IF step = PhotoOnly
    THEN StartSend(TextOnly, sm, img, st)
    ELSE [st EXCEPT !.pc = "done",
                    !.result = ResultAfterFallback(
                                   st.calls[Len(st.calls) - 1].ret, ret)]

SetReportState(st) ==
    /\ dpc' = st.pc
    /\ report_result' = st.result
    /\ sendCalls' = st.calls
    /\ transport' = st.transport
    /\ bot' = st.bot

Summaries == {"", "forecast"}
Photos == {"", "png"}

\* send_weather_report is called: lines 105-106 up to the first await.
ReportEnter(sm, img) ==
    /\ dpc \in {"idle", "done"}
    /\ reports < MaxReports
    /\ reports' = reports + 1
    /\ d_summary' = sm
    /\ d_photo' = img
    /\ SetReportState(StartSend(Combined, sm, img,
            [pc |-> "idle", result |-> FALSE, calls |-> <<>>,
             transport |-> <<>>, bot |-> bot]))
    /\ UNCHANGED <<channel, closeCalls, closing>>

Awaited == {Combined, PhotoOnly, TextOnly}

\* The Bot API call succeeds: the method logs and returns True (lines 62-64,
\* 90-92), the chat has the message.
TransportOk ==
    /\ dpc \in Awaited
    /\ LET call == MethodCall(dpc, d_summary, d_photo) IN
         /\ channel' = Append(channel, call)
         /\ SetReportState(AfterSend(dpc, TRUE, d_summary, d_photo,
                [ReportState EXCEPT !.calls = Append(@, Returned(call, TRUE))]))
    /\ UNCHANGED <<d_summary, d_photo, reports, closeCalls, closing>>

\* The Bot API call raises: the method catches it and returns False
\* (lines 65-67, 93-95).
TransportRaises ==
    /\ dpc \in Awaited
    /\ LET call == MethodCall(dpc, d_summary, d_photo) IN
         SetReportState(AfterSend(dpc, FALSE, d_summary, d_photo,
                [ReportState EXCEPT !.calls = Append(@, Returned(call, FALSE))]))
    /\ UNCHANGED <<d_summary, d_photo, channel, reports, closeCalls, closing>>

\* TelegramClient.close is called, lines 119-124: with a Bot it awaits
\* session.close(), without one it returns at once.
CloseEnter ==
    /\ closeCalls' = closeCalls + 1
    /\ closing' = IF bot = "Bot" THEN closing + 1 ELSE closing
    /\ UNCHANGED bot

\* session.close() returned: line 125, self._bot = None.
CloseSessionReturns ==
    /\ closing > 0
    /\ closing' = closing - 1
    /\ bot' = "None"
    /\ UNCHANGED closeCalls

\* session.close() raised: the exception leaves close, _bot is as it was.
CloseSessionRaises ==
    /\ closing > 0
    /\ closing' = closing - 1
    /\ UNCHANGED <<bot, closeCalls>>

-----------------------------------------------------------------------------
(* WeatherReporter._categorize_weather, run.py lines 30-53 *)

\* Japanese glyphs of the icon texts, one token each.
RAI  == "jp_rai"     \* 雷
YUKI == "jp_yuki"    \* 雪
HARE == "jp_hare"    \* 晴
AME  == "jp_ame"     \* 雨
DON  == "jp_don"     \* 曇
RE   == "jp_re"      \* れ
TOKI == "jp_toki"    \* 時
NOMA == "jp_noma"    \* 々
KU   == "jp_ku"      \* く
MO   == "jp_mo"      \* も
RI   == "jp_ri"      \* り
YA   == "jp_ya"      \* や
MU   == "jp_mu"      \* む

\* pat in text
Contains(text, pat) ==
    \E i \in 0..(Len(text) - Len(pat)) :
        \A j \in 1..Len(pat) : text[i + j] = pat[j]

Groza    == <<"g","r","o","z","a">>                               \* гроза
Sneg     == <<"s","n","e","g">>                                   \* снег
Solnechno == <<"s","o","l","n","e","ch","n","o">>                 \* солнечно
Oblachno == <<"o","b","l","a","ch","n","o">>                      \* облачно
Dozhd    == <<"d","o","zh","d","soft">>                           \* дождь
Vremenami == <<"v","r","e","m","e","n","a","m","i">>              \* временами
SProyasneniyami ==                                                \* с прояснениями
    <<"s"," ","p","r","o","ya","s","n","e","n","i","ya","m","i">>

\* Faulty variant of _categorize_weather: the phrase is put in front of the
\* icon text instead of replacing it.
_categorize_weather_prefixing(alt) ==
    IF Contains(alt, <<RAI>>) THEN Groza \o <<" ">> \o alt
    ELSE IF Contains(alt, <<YUKI>>) THEN Sneg \o <<" ">> \o alt
    ELSE IF Contains(alt, <<HARE, RE, TOKI, NOMA, KU, MO, RI>>)
         THEN Solnechno \o <<",", " ">> \o Vremenami \o <<" ">> \o Oblachno
                  \o <<" ">> \o alt
    ELSE IF Contains(alt, <<KU, MO, RI, TOKI, NOMA, AME>>)
         THEN Oblachno \o <<",", " ">> \o Vremenami \o <<" ">> \o Dozhd
                  \o <<" ">> \o alt
    ELSE IF Contains(alt, <<AME, TOKI, NOMA, YA, MU>>)
         THEN Dozhd \o <<" ">> \o SProyasneniyami \o <<" ">> \o alt
    ELSE IF Contains(alt, <<AME>>) THEN Dozhd \o <<" ">> \o alt
    ELSE IF Contains(alt, <<HARE>>) THEN Solnechno \o <<" ">> \o alt
    ELSE IF Contains(alt, <<KU, MO>>) \/ Contains(alt, <<DON>>)
         THEN Oblachno \o <<" ">> \o alt
    ELSE alt

\* Faulty variant of _categorize_weather: the tests for rain, sunny and cloudy
\* come before the tests for the compound patterns.
_categorize_weather_simple_first(alt) ==
    IF Contains(alt, <<RAI>>) THEN Groza
    ELSE IF Contains(alt, <<YUKI>>) THEN Sneg
    ELSE IF Contains(alt, <<AME>>) THEN Dozhd
    ELSE IF Contains(alt, <<HARE>>) THEN Solnechno
    ELSE IF Contains(alt, <<KU, MO>>) \/ Contains(alt, <<DON>>) THEN Oblachno
    ELSE IF Contains(alt, <<HARE, RE, TOKI, NOMA, KU, MO, RI>>)
         THEN Solnechno \o <<",", " ">> \o Vremenami \o <<" ">> \o Oblachno
    ELSE IF Contains(alt, <<KU, MO, RI, TOKI, NOMA, AME>>)
         THEN Oblachno \o <<",", " ">> \o Vremenami \o <<" ">> \o Dozhd
    ELSE IF Contains(alt, <<AME, TOKI, NOMA, YA, MU>>)
         THEN Dozhd \o <<" ">> \o SProyasneniyami
    ELSE alt

\* run.py lines 37-53
_categorize_weather(alt) ==
    IF Contains(alt, <<RAI>>) THEN Groza
    ELSE IF Contains(alt, <<YUKI>>) THEN Sneg
    ELSE IF Contains(alt, <<HARE, RE, TOKI, NOMA, KU, MO, RI>>)
         THEN Solnechno \o <<",", " ">> \o Vremenami \o <<" ">> \o Oblachno
    ELSE IF Contains(alt, <<KU, MO, RI, TOKI, NOMA, AME>>)
         THEN Oblachno \o <<",", " ">> \o Vremenami \o <<" ">> \o Dozhd
    ELSE IF Contains(alt, <<AME, TOKI, NOMA, YA, MU>>)
         THEN Dozhd \o <<" ">> \o SProyasneniyami
    ELSE IF Contains(alt, <<AME>>) THEN Dozhd
    ELSE IF Contains(alt, <<HARE>>) THEN Solnechno
    ELSE IF Contains(alt, <<KU, MO>>) \/ Contains(alt, <<DON>>) THEN Oblachno
    ELSE alt

\* The texts _categorize_weather is applied to: up to MaxPieces pieces, each
\* an icon pattern of lines 37-51, a fragment of one, another glyph, or one
\* of the phrases the function returns.
AltPieces ==
    {<<RAI>>, <<YUKI>>,
     <<HARE, RE, TOKI, NOMA, KU, MO, RI>>,
     <<KU, MO, RI, TOKI, NOMA, AME>>,
     <<AME, TOKI, NOMA, YA, MU>>,
     <<AME>>, <<HARE>>, <<KU, MO>>, <<DON>>,
     <<RE>>, <<TOKI, NOMA>>, <<YA, MU>>, <<"#">>,
     Groza, Sneg,
     Solnechno \o <<",", " ">> \o Vremenami \o <<" ">> \o Oblachno,
     Oblachno \o <<",", " ">> \o Vremenami \o <<" ">> \o Dozhd,
     Dozhd \o <<" ">> \o SProyasneniyami,
     Dozhd, Solnechno, Oblachno}

RECURSIVE Concat(_)
Concat(pieces) ==
    IF pieces = <<>> THEN <<>> ELSE Head(pieces) \o Concat(Tail(pieces))

AltTexts ==
    {Concat(ps) : ps \in UNION {[1..n -> AltPieces] : n \in 0..MaxPieces}}

\* _categorize_weather is called with the text c_alt.
Categorize ==
    /\ c_apps = 0
    /\ c_condition' = _categorize_weather(c_alt)
    /\ c_apps' = 1
    /\ UNCHANGED <<c_alt, c_recondition>>

\* _categorize_weather is called with the value it returned.
CategorizeAgain ==
    /\ c_apps = 1
    /\ c_recondition' = _categorize_weather(c_condition)
    /\ c_apps' = 2
    /\ UNCHANGED <<c_alt, c_condition>>

\* WeatherReporter._prepare_weather_data, run.py lines 55-71
_prepare_weather_data(records) ==
    [i \in 1..Len(records) |->
        [jp |-> records[i].jp, ru |-> records[i].ru, max_c |-> records[i].max_c,
         alt |-> records[i].alt, condition |-> _categorize_weather(records[i].alt)]]

\* build_weather_summary, ai.py lines 205-213: the payload of the user turn
SummaryPayload(records) ==
    [i \in 1..Len(records) |->
        [city_ru |-> records[i].ru, city_jp |-> records[i].jp,
         max_c |-> records[i].max_c, condition_alt |-> records[i].alt]]

-----------------------------------------------------------------------------
(* The page: WEATHER_SCRAPE_JS, browser.py lines 15-21, and
   REPLACE_CITY_NAMES_JS, lines 24-48 *)

\* String.prototype.trim removes the white space of ECMAScript, which
\* holds U+FEFF (here "bom"); str.strip of Python does not remove U+FEFF.
JsWhitespace == Whitespace \cup {"bom"}

RECURSIVE JsTrimStart(_)
JsTrimStart(s) ==
    IF s # <<>> /\ Head(s) \in JsWhitespace THEN JsTrimStart(Tail(s)) ELSE s

RECURSIVE JsTrimEnd(_)
JsTrimEnd(s) ==
    IF s # <<>> /\ s[Len(s)] \in JsWhitespace
    THEN JsTrimEnd(SubSeq(s, 1, Len(s) - 1))
    ELSE s

\* s.trim()
JsTrim(s) == JsTrimEnd(JsTrimStart(s))

\* The term a trimmed name text is: the inverse of TermText.
TermOf(text) == IF text = <<>> THEN "" ELSE text[2]

\* A plate of the page: its name element (<<>>: the plate has none, <<text>>:
\* the text the page renders into it), the alt of its icon, its temperature.
Plate(el, alt, max) == [el |-> el, alt |-> alt, max |-> max]

PlateUniverse ==
    {Plate(<<<<"#", "Tokyo">>>>, <<HARE>>, "32"),
     Plate(<<<<" ", "#", "Kobe", " ">>>>, <<AME>>, "-"),
     Plate(<<<<"#", "Nara">>>>, <<HARE, RE, TOKI, NOMA, KU, MO, RI>>, "18"),
     Plate(<<<<>>>>, <<>>, ""),       \* a name element without text
     Plate(<<>>, <<>>, "")}           \* no name element, no icon, no temperature

PlateLists == UNION {[1..n -> PlateUniverse] : n \in 0..MaxTiles}

\* What WEATHER_SCRAPE_JS yields for a plate: name, alt, max.
Tile(name, alt, max) == [name |-> name, alt |-> alt, max |-> max]

\* WEATHER_SCRAPE_JS: one tile for every plate; the name is the trimmed text
\* of the name element, or '' when the plate has none (?. and || '').
WEATHER_SCRAPE_JS(plates) ==
    [i \in 1..Len(plates) |->
        Tile(IF plates[i].el = <<>> THEN "" ELSE TermOf(JsTrim(plates[i].el[1])),
             plates[i].alt, plates[i].max)]

\* document.querySelectorAll('.weather-forecast-name'): the texts of the name
\* elements of the document, in its order.
NameElements(plates) ==
    LET named == SelectSeq(plates, LAMBDA q : q.el # <<>>)
    IN  [i \in 1..Len(named) |-> named[i].el[1]]

\* lines 45-46 and line 103: map(e => e.textContent.trim())
NamesRead(texts) == [i \in 1..Len(texts) |-> JsTrim(texts[i])]

\* The body of the forEach of apply(), lines 28-33, for one element.
ApplyElement(text, jpName, d) ==
    LET jp == JsTrim(IF jpName # <<>> /\ jpName[1] # <<>> THEN jpName[1] ELSE text)
        ru == IF jp \in DOMAIN d THEN d[jp] ELSE <<>>
        write == ru # <<>> /\ JsTrim(text) # ru
    IN  [textContent |-> IF write THEN ru ELSE text,
         jpName |-> <<jp>>,
         write |-> write]

\* apply(), lines 26-35, on all the name elements, with the dict d.
apply(d) ==
    LET r == [i \in 1..Len(el_textContent) |->
                 ApplyElement(el_textContent[i], el_jpName[i], d)]
    IN  /\ el_textContent' = [i \in 1..Len(r) |-> r[i].textContent]
        /\ el_jpName' = [i \in 1..Len(r) |-> r[i].jpName]
        /\ writes' = Cardinality({i \in 1..Len(r) : r[i].write})
        /\ applies' = applies + 1
        /\ text_first' = IF applies = 0 THEN el_textContent' ELSE text_first

\* REPLACE_CITY_NAMES_JS is evaluated with the dict d in a document whose
\* container is there (c) or not: apply() runs, then the observer is
\* attached unless the container has one (lines 36-43).  The writes of this
\* apply() reach an observer attached by an earlier evaluation.
Evaluate(d, c) ==
    /\ script_runs' = script_runs + 1
    /\ apply(d)
    /\ pending' = (pending \/ (ruObserver /\ writes' > 0))
    /\ IF c /\ ~ruObserver
       THEN observers' = observers + 1 /\ ruObserver' = TRUE
       ELSE UNCHANGED <<observers, ruObserver>>
    /\ UNCHANGED <<el_rendered, renders>>

\* page.evaluate(REPLACE_CITY_NAMES_JS, mapping), once more on the same page.
REPLACE_CITY_NAMES_JS ==
    /\ script_runs < MaxRuns
    /\ applies < MaxApplies
    /\ Evaluate(dict, cont)
    /\ UNCHANGED <<dict, cont>>

\* The callback of the MutationObserver, line 40: () => apply().  Its own
\* writes are child-list mutations under the container.
ObserverCallback ==
    /\ pending
    /\ applies < MaxApplies
    /\ apply(dict)
    /\ pending' = (writes' > 0)
    /\ UNCHANGED <<dict, el_rendered, cont, ruObserver, observers, script_runs,
                   renders>>

\* The texts the page can render into name element i: the text it had when
\* the page was scraped, or none while the element is drawn anew.
RenderTexts(i) == {el_rendered[i], <<>>}

\* The page renders a name element anew: its text is what the page gives
\* it, its dataset stays.  The mutation reaches the observer if there is one.
Rerender(i, text) ==
    /\ renders < MaxRenders
    /\ renders' = renders + 1
    /\ el_textContent' = [el_textContent EXCEPT ![i] = text]
    /\ pending' = (pending \/ ruObserver)
    /\ UNCHANGED <<dict, el_rendered, el_jpName, cont, ruObserver, observers,
                   script_runs, applies, writes, text_first>>

\* The page is closed: nothing of it is left.
ClosePage ==
    /\ dict' = EmptyMap
    /\ el_rendered' = <<>>
    /\ el_textContent' = <<>>
    /\ el_jpName' = <<>>
    /\ cont' = FALSE
    /\ ruObserver' = FALSE
    /\ observers' = 0
    /\ pending' = FALSE
    /\ script_runs' = 0
    /\ applies' = 0
    /\ writes' = 0
    /\ text_first' = <<>>
    /\ renders' = 0

\* The mappings translate can return for the names 東京 and 神戸: 東京 is
\* seeded; for 神戸 the candidate was rejected, or it was accepted and
\* stripped by ai.py line 179.
InjectTerms == <<"Tokyo", "Kobe">>

InjectCandidates ==
    {JStr(<<"#">>), JStr(<<" ", "K", "o", " ">>), JStr(<<"bom", "K", "o">>)}

InjectMappings ==
    {ReturnMapping(InjectTerms,
                   DictUpdate(SeedTranslations, Good(<<<<"Kobe", v>>>>))) :
        v \in InjectCandidates}

\* The mapping as the object the script indexes by the text of a name.
AsDict(mapping) ==
    [key \in {TermText(t) : t \in DOMAIN mapping} |-> mapping[TermOf(key)]]

-----------------------------------------------------------------------------
(* BrowserScraper.process, browser.py lines 130-178 *)

\* line 155: [r["name"] for r in raw_data if r["name"]]
JpNames(raw) ==
    LET named == SelectSeq(raw, LAMBDA r : r.name # "")
    IN  [i \in 1..Len(named) |-> named[i].name]

\* Faulty variant of WeatherData: the tiles without a name get a record too.
WeatherDataAllTiles(raw, mapping) ==
    [i \in 1..Len(raw) |->
        [jp |-> raw[i].name,
         ru |-> DictGet(mapping, raw[i].name, TermText(raw[i].name)),
         max_c |-> IF raw[i].max # "-" THEN raw[i].max ELSE "",
         alt |-> raw[i].alt]]

\* lines 168-176
WeatherData(raw, mapping) ==
    LET named == SelectSeq(raw, LAMBDA r : r.name # "")
    IN  [i \in 1..Len(named) |->
            [jp |-> named[i].name,
             ru |-> DictGet(mapping, named[i].name, TermText(named[i].name)),
             max_c |-> IF named[i].max # "-" THEN named[i].max ELSE "",
             alt |-> named[i].alt]]

\* any(self._cyrillic_re.search(n) for n in names)
AnyCyrillic(names) == \E i \in 1..Len(names) : HasCyrillic(names[i])

\* Faulty variant of VerifyReads: the loop reads once more.
VerifyReadsFour == 3 + 1

\* The verification loop of replace_city_names reads at most this often.
VerifyReads == 3

DraftTexts == {"", "draft"}
RephraseTexts == {"", "forecast"}

Log(call) == trace' = Append(trace, call)

\* Faulty variant of Fatal: the exception is logged where it arose and the
\* run goes on to the draft summary.
FatalSwallowed ==
    /\ pc' = "chat_draft"
    /\ UNCHANGED run_result

\* Faulty variant of Fatal: the exception leaves run without the finally clause.
FatalSkipsFinally ==
    /\ pc' = "exited"
    /\ run_result' = FALSE

\* An exception reaches run's except clause (run.py lines 99-101): run will
\* return False once the finally clause has run.
Fatal ==
    /\ pc' = "finally"
    /\ run_result' = FALSE

\* An exception arises inside the async with block of process (lines
\* 139-166): the block is left through __aexit__ of async_playwright, which
\* is awaited, and the exception goes on to run.
RaiseInBlock ==
    /\ pc' = "unwind"
    /\ UNCHANGED run_result

\* main calls run, run calls process (run.py 111, 80), process enters the
\* async with statement of line 138.
RunStart ==
    /\ pc = "start"
    /\ pc' = "playwright_start"
    /\ UNCHANGED <<raw_data, tiles_found, dom_ok, verify_i, name_reads, screenshot, weather_data,
                   processed_data, payload, initial_summary, summary,
                   run_result, exit_status, trace>>
    /\ UNCHANGED <<tvars, dvars, cvars, ivars>>

\* line 138: async_playwright().__aenter__ is awaited.  When it raises the
\* block was not entered: the exception goes to run at once.
ProcessPlaywrightStart(ok) ==
    /\ pc = "playwright_start"
    /\ Log("playwright_start")
    /\ IF ok THEN pc' = "launch" /\ UNCHANGED run_result ELSE Fatal
    /\ UNCHANGED <<raw_data, tiles_found, dom_ok, verify_i, name_reads, screenshot, weather_data,
                   processed_data, payload, initial_summary, summary, exit_status>>
    /\ UNCHANGED <<tvars, dvars, cvars, ivars>>

\* An awaited call of the block that gives process nothing it keeps in the
\* model: it returns and process goes on, or it raises.
PageCall(here, call, next, ok) ==
    /\ pc = here
    /\ Log(call)
    /\ IF ok THEN pc' = next /\ UNCHANGED run_result ELSE RaiseInBlock
    /\ UNCHANGED <<raw_data, tiles_found, dom_ok, verify_i, name_reads, screenshot, weather_data,
                   processed_data, payload, initial_summary, summary, exit_status>>
    /\ UNCHANGED <<tvars, dvars, cvars, ivars>>

\* line 139: playwright.firefox.launch
ProcessLaunch(ok) == PageCall("launch", "launch", "new_context", ok)

\* lines 140-142: browser.new_context
ProcessNewContext(ok) == PageCall("new_context", "new_context", "new_page", ok)

\* line 144: context.new_page
ProcessNewPage(ok) == PageCall("new_page", "new_page", "goto", ok)

\* line 145: page.goto
ProcessGoto(ok) == PageCall("goto", "goto", "wait_for_selector", ok)

\* line 146: page.wait_for_selector
ProcessWaitForSelector(ok) ==
    PageCall("wait_for_selector", "wait_for_selector", "scrape", ok)

\* lines 148-150: the page evaluation of the scrape raises.
ProcessScrapeRaises ==
    /\ pc = "scrape"
    /\ Log("scrape")
    /\ RaiseInBlock
    /\ UNCHANGED <<raw_data, tiles_found, dom_ok, verify_i, name_reads, screenshot, weather_data,
                   processed_data, payload, initial_summary, summary, exit_status>>
    /\ UNCHANGED <<tvars, dvars, cvars, ivars>>

\* Faulty variant of NoTilesFound: the check for an empty scrape is left out.
NoTilesFoundIgnored(raw) == FALSE

\* line 152: if not raw_data
NoTilesFound(raw) == raw = <<>>

\* lines 150-156: the scrape returned the tiles of the page's plates.  With
\* no tile process raises RuntimeError, else translate is called with the
\* names of the tiles.
ProcessScrape(plates) ==
    /\ pc = "scrape"
    /\ raw_data' = WEATHER_SCRAPE_JS(plates)
    /\ tiles_found' = Len(raw_data')
    /\ el_rendered' = NameElements(plates)
    /\ el_textContent' = el_rendered'
    /\ el_jpName' = [i \in 1..Len(el_rendered') |-> <<>>]
    /\ IF NoTilesFound(raw_data')
       THEN /\ Log("scrape")
            /\ RaiseInBlock
            /\ UNCHANGED tvars
       ELSE /\ trace' = trace \o <<"scrape", "translate">>
            /\ TranslateEnter(JpNames(raw_data'))
            /\ pc' = IF tpc' = "returned" THEN "inject" ELSE "translate"
            /\ UNCHANGED run_result
    /\ UNCHANGED <<dom_ok, verify_i, name_reads, screenshot, weather_data, processed_data,
                   payload, initial_summary, summary, exit_status>>
    /\ UNCHANGED <<dict, cont, ruObserver, observers, pending, script_runs,
                   applies, writes, text_first, renders>>
    /\ UNCHANGED <<dvars, cvars>>

\* A round of the translate call process awaits.
ProcessTranslateRound ==
    /\ pc = "translate"
    /\ TranslateRound
    /\ Log("chat_translate")
    /\ IF tpc' = "raised" THEN RaiseInBlock
       ELSE /\ pc' = IF tpc' = "returned" THEN "inject" ELSE "translate"
            /\ UNCHANGED run_result
    /\ UNCHANGED <<raw_data, tiles_found, dom_ok, verify_i, name_reads, screenshot, weather_data,
                   processed_data, payload, initial_summary, summary, exit_status>>
    /\ UNCHANGED <<dvars, cvars, ivars>>

\* replace_city_names line 96: the evaluation of REPLACE_CITY_NAMES_JS raises.
ProcessInjectRaises ==
    /\ pc = "inject"
    /\ Log("inject")
    /\ RaiseInBlock
    /\ UNCHANGED <<raw_data, tiles_found, dom_ok, verify_i, name_reads, screenshot, weather_data,
                   processed_data, payload, initial_summary, summary, exit_status>>
    /\ UNCHANGED <<tvars, dvars, cvars, ivars>>

\* replace_city_names lines 96-99: REPLACE_CITY_NAMES_JS is evaluated with
\* the mapping of translate, in a document that holds the container (c) or
\* not, and returns the texts of the name elements.
ProcessInject(c) ==
    /\ pc = "inject"
    /\ Log("inject")
    /\ dict' = AsDict(output)
    /\ cont' = c
    /\ Evaluate(dict', c)
    /\ name_reads' = <<NamesRead(el_textContent')>>
    /\ dom_ok' = AnyCyrillic(name_reads'[1])
    /\ verify_i' = 0
    /\ pc' = IF dom_ok' THEN "add_style_tag" ELSE "read_names"
    /\ UNCHANGED <<raw_data, tiles_found, screenshot, weather_data, processed_data, payload,
                   initial_summary, summary, run_result, exit_status>>
    /\ UNCHANGED <<tvars, dvars, cvars>>

\* replace_city_names lines 100-104: a re-read raises.
ProcessReadNamesRaises ==
    /\ pc = "read_names"
    /\ Log("read_names")
    /\ RaiseInBlock
    /\ UNCHANGED <<raw_data, tiles_found, dom_ok, verify_i, name_reads, screenshot, weather_data,
                   processed_data, payload, initial_summary, summary, exit_status>>
    /\ UNCHANGED <<tvars, dvars, cvars, ivars>>

\* replace_city_names lines 100-109: a re-read of the name texts.
ProcessReadNames ==
    /\ pc = "read_names"
    /\ Log("read_names")
    /\ name_reads' = Append(name_reads, NamesRead(el_textContent))
    /\ dom_ok' = AnyCyrillic(NamesRead(el_textContent))
    /\ verify_i' = verify_i + 1
    /\ pc' = IF dom_ok' \/ verify_i' = VerifyReads THEN "add_style_tag" ELSE "read_names"
    /\ UNCHANGED <<raw_data, tiles_found, screenshot, weather_data, processed_data, payload,
                   initial_summary, summary, run_result, exit_status>>
    /\ UNCHANGED <<tvars, dvars, cvars, ivars>>

\* While process awaits the evaluation of the script or a re-read (the
\* translate call and the sleeps of line 101 have gone by), the page renders
\* a name element anew.
PageRerender(i, text) ==
    /\ pc \in {"inject", "read_names"}
    /\ Rerender(i, text)
    /\ UNCHANGED <<tvars, dvars, rvars, cvars>>

\* While process sleeps between the reads, the observer's callback runs.
PageObserverCallback ==
    /\ pc = "read_names"
    /\ ObserverCallback
    /\ UNCHANGED <<tvars, dvars, rvars, cvars>>

\* apply_styles, lines 111-117, called at line 163
ProcessAddStyleTag(ok) == PageCall("add_style_tag", "add_style_tag", "screenshot", ok)

\* capture_screenshot, lines 119-128, called at line 165
ProcessScreenshot(ok) ==
    /\ pc = "screenshot"
    /\ Log("screenshot")
    /\ IF ok
       THEN screenshot' = "png" /\ pc' = "browser_close" /\ UNCHANGED run_result
       ELSE RaiseInBlock /\ UNCHANGED screenshot
    /\ UNCHANGED <<raw_data, tiles_found, dom_ok, verify_i, name_reads, weather_data,
                   processed_data, payload, initial_summary, summary, exit_status>>
    /\ UNCHANGED <<tvars, dvars, cvars, ivars>>

\* browser.close() raises (line 166).
ProcessBrowserCloseRaises ==
    /\ pc = "browser_close"
    /\ Log("browser_close")
    /\ RaiseInBlock
    /\ UNCHANGED <<raw_data, tiles_found, dom_ok, verify_i, name_reads, screenshot, weather_data,
                   processed_data, payload, initial_summary, summary, exit_status>>
    /\ UNCHANGED <<tvars, dvars, cvars, ivars>>

\* browser.close() returns (line 166): the page is gone, the block ends
\* and __aexit__ of async_playwright is awaited.
ProcessBrowserClose ==
    /\ pc = "browser_close"
    /\ Log("browser_close")
    /\ ClosePage
    /\ name_reads' = <<>>
    /\ pc' = "playwright_stop"
    /\ UNCHANGED run_result
    /\ UNCHANGED <<raw_data, tiles_found, dom_ok, verify_i, screenshot, weather_data,
                   processed_data, payload, initial_summary, summary, exit_status>>
    /\ UNCHANGED <<tvars, dvars, cvars>>

\* The block was left by an exception: __aexit__ is over, the browser and
\* its page are gone, an exception reaches run.
ProcessUnwind ==
    /\ pc = "unwind"
    /\ Log("playwright_stop")
    /\ ClosePage
    /\ name_reads' = <<>>
    /\ Fatal
    /\ UNCHANGED <<raw_data, tiles_found, dom_ok, verify_i, screenshot, weather_data,
                   processed_data, payload, initial_summary, summary, exit_status>>
    /\ UNCHANGED <<tvars, dvars, cvars>>

\* The block ended and __aexit__ raises.
ProcessPlaywrightStopRaises ==
    /\ pc = "playwright_stop"
    /\ Log("playwright_stop")
    /\ Fatal
    /\ UNCHANGED <<raw_data, tiles_found, dom_ok, verify_i, name_reads, screenshot, weather_data,
                   processed_data, payload, initial_summary, summary, exit_status>>
    /\ UNCHANGED <<tvars, dvars, cvars, ivars>>

\* browser.py lines 166-178 and run.py lines 80-90: __aexit__ returned,
\* process returns the records; run returns False when there is none, else
\* it prepares them and asks for the draft summary.
ProcessReturns ==
    /\ pc = "playwright_stop"
    /\ Log("playwright_stop")
    /\ weather_data' = WeatherData(raw_data, output)
    /\ IF weather_data' = <<>>
       THEN /\ pc' = "finally"
            /\ run_result' = FALSE
            /\ UNCHANGED <<processed_data, payload>>
       ELSE /\ processed_data' = _prepare_weather_data(weather_data')
            /\ payload' = SummaryPayload(processed_data')
            /\ pc' = "chat_draft"
            /\ UNCHANGED run_result
    /\ UNCHANGED <<raw_data, tiles_found, dom_ok, verify_i, name_reads, screenshot, initial_summary,
                   summary, exit_status>>
    /\ UNCHANGED <<tvars, dvars, cvars, ivars>>

-----------------------------------------------------------------------------
(* WeatherReporter.run and main, run.py lines 73-117; the summary calls of
   DeepSeekClient, ai.py lines 198-260 *)

\* run.py lines 96-98: send_weather_report is called with the summary and the
\* screenshot; when it returns, run returns its result.
RunDeliver(text) ==
    /\ summary' = text
    /\ ReportEnter(text, screenshot)
    /\ IF dpc' = "done"
       THEN pc' = "finally" /\ run_result' = report_result'
       ELSE pc' = "deliver" /\ UNCHANGED run_result

\* build_weather_summary: chat raises (ai.py line 232).
RunDraftRaises ==
    /\ pc = "chat_draft"
    /\ Log("chat_draft")
    /\ Fatal
    /\ UNCHANGED <<raw_data, tiles_found, dom_ok, verify_i, name_reads, screenshot, weather_data,
                   processed_data, payload, initial_summary, summary, exit_status>>
    /\ UNCHANGED <<tvars, dvars, cvars, ivars>>

\* Faulty variant of RephraseSkipsChat: the empty draft is sent to chat as well.
RephraseNeverSkips(text) == FALSE

\* rephrase_weather_summary line 241: if not summary
RephraseSkipsChat(text) == text = ""

\* run.py lines 90-96 with rephrase_weather_summary lines 241-257: chat
\* returned the draft.  An empty draft is returned by rephrase as it is and
\* goes to delivery; for any other the rephrase call to chat is made.
RunDraft(text) ==
    /\ pc = "chat_draft"
    /\ initial_summary' = text
    /\ IF RephraseSkipsChat(text)
       THEN /\ trace' = trace \o <<"chat_draft", "send_weather_report">>
            /\ RunDeliver(text)
       ELSE /\ Log("chat_draft")
            /\ pc' = "chat_rephrase"
            /\ UNCHANGED <<summary, run_result>>
            /\ UNCHANGED dvars
    /\ UNCHANGED <<raw_data, tiles_found, dom_ok, verify_i, name_reads, screenshot, weather_data,
                   processed_data, payload, exit_status>>
    /\ UNCHANGED <<tvars, cvars, ivars>>

\* rephrase_weather_summary: chat raises (ai.py line 257).
RunRephraseRaises ==
    /\ pc = "chat_rephrase"
    /\ Log("chat_rephrase")
    /\ Fatal
    /\ UNCHANGED <<raw_data, tiles_found, dom_ok, verify_i, name_reads, screenshot, weather_data,
                   processed_data, payload, initial_summary, summary, exit_status>>
    /\ UNCHANGED <<tvars, dvars, cvars, ivars>>

\* ai.py lines 257-260, run.py lines 93-96
RunRephrase(text) ==
    /\ pc = "chat_rephrase"
    /\ trace' = trace \o <<"chat_rephrase", "send_weather_report">>
    /\ RunDeliver(text)
    /\ UNCHANGED <<raw_data, tiles_found, dom_ok, verify_i, name_reads, screenshot, weather_data,
                   processed_data, payload, initial_summary, exit_status>>
    /\ UNCHANGED <<tvars, cvars, ivars>>

\* A send of the report run awaits is answered.
RunTransport(ok) ==
    /\ pc = "deliver"
    /\ IF ok THEN TransportOk ELSE TransportRaises
    /\ IF dpc' = "done"
       THEN pc' = "finally" /\ run_result' = report_result'
       ELSE pc' = "deliver" /\ UNCHANGED run_result
    /\ UNCHANGED <<raw_data, tiles_found, dom_ok, verify_i, name_reads, screenshot, weather_data,
                   processed_data, payload, initial_summary, summary,
                   exit_status, trace>>
    /\ UNCHANGED <<tvars, cvars, ivars>>

\* Faulty variant of ExitStatus: main never calls sys.exit(1).
ExitStatusAlwaysZero(success) == 0

\* main, run.py lines 113-117
ExitStatus(success) == IF success THEN 0 ELSE 1

\* run.py lines 102-103 and 111-117: the finally clause calls close.  When
\* the client has no Bot close returns at once: run returns, main exits with
\* status 1 unless run returned True.
RunFinally ==
    /\ pc = "finally"
    /\ Log("close")
    /\ CloseEnter
    /\ IF bot = "None"
       THEN exit_status' = ExitStatus(run_result) /\ pc' = "exited"
       ELSE pc' = "session_close" /\ UNCHANGED exit_status
    /\ UNCHANGED <<raw_data, tiles_found, dom_ok, verify_i, name_reads, screenshot, weather_data,
                   processed_data, payload, initial_summary, summary, run_result>>
    /\ UNCHANGED <<dpc, d_summary, d_photo, report_result, sendCalls, transport,
                   channel, reports>>
    /\ UNCHANGED <<tvars, cvars, ivars>>

\* The session.close() that close awaits is over.  When it returned, run
\* returns and main exits as above; when it raised, the exception leaves the
\* finally clause, run and main: the interpreter exits with status 1.
RunSessionClose(ok) ==
    /\ pc = "session_close"
    /\ IF ok
       THEN /\ CloseSessionReturns
            /\ exit_status' = ExitStatus(run_result)
            /\ pc' = "exited"
       ELSE /\ CloseSessionRaises
            /\ exit_status' = 1
            /\ pc' = "crashed"
    /\ UNCHANGED <<raw_data, tiles_found, dom_ok, verify_i, name_reads, screenshot, weather_data,
                   processed_data, payload, initial_summary, summary, run_result, trace>>
    /\ UNCHANGED <<dpc, d_summary, d_photo, report_result, sendCalls, transport,
                   channel, reports>>
    /\ UNCHANGED <<tvars, cvars, ivars>>

-----------------------------------------------------------------------------

\* The pipeline before anything ran: the cache as imported, a new
\* TelegramClient, main not yet started.
InitPipeline ==
    /\ CITY_TRANSLATIONS = SeedTranslations
    /\ tpc = "idle"
    /\ jp_terms = <<>>
    /\ attempt = 0
    /\ missing = <<>>
    /\ result = EmptyMap
    /\ output = EmptyMap
    /\ cacheAtCall = SeedTranslations
    /\ chatCalls = 0
    /\ rejected = FALSE
    /\ chatErrors = 0
    /\ parse_failed = FALSE
    /\ accepted = FALSE
    /\ bot = "None"
    /\ dpc = "idle"
    /\ d_summary = ""
    /\ d_photo = ""
    /\ report_result = FALSE
    /\ sendCalls = <<>>
    /\ transport = <<>>
    /\ channel = <<>>
    /\ reports = 0
    /\ closeCalls = 0
    /\ closing = 0
    /\ pc = "start"
    /\ raw_data = <<>>
    /\ tiles_found = -1
    /\ dom_ok = FALSE
    /\ verify_i = 0
    /\ name_reads = <<>>
    /\ screenshot = ""
    /\ weather_data = <<>>
    /\ processed_data = <<>>
    /\ payload = <<>>
    /\ initial_summary = ""
    /\ summary = ""
    /\ run_result = FALSE
    /\ exit_status = -1
    /\ trace = <<>>

\* No page is open.
InitNoPage ==
    /\ dict = EmptyMap
    /\ el_rendered = <<>>
    /\ el_textContent = <<>>
    /\ el_jpName = <<>>
    /\ cont = FALSE
    /\ ruObserver = FALSE
    /\ observers = 0
    /\ pending = FALSE
    /\ script_runs = 0
    /\ applies = 0
    /\ writes = 0
    /\ text_first = <<>>
    /\ renders = 0

Init ==
    /\ InitPipeline
    /\ InitNoPage
    /\ c_alt = <<>>
    /\ c_condition = <<>>
    /\ c_recondition = <<>>
    /\ c_apps = 0

\* A page with its name elements as rendered, and the mapping of translate.
InitInject ==
    /\ InitPipeline
    /\ c_alt = <<>>
    /\ c_condition = <<>>
    /\ c_recondition = <<>>
    /\ c_apps = 0
    /\ dict \in {AsDict(m) : m \in InjectMappings}
    /\ el_rendered \in {NameElements(plates) : plates \in PlateLists}
    /\ el_textContent = el_rendered
    /\ el_jpName = [i \in 1..Len(el_rendered) |-> <<>>]
    /\ cont \in BOOLEAN
    /\ ruObserver = FALSE
    /\ observers = 0
    /\ pending = FALSE
    /\ script_runs = 0
    /\ applies = 0
    /\ writes = 0
    /\ text_first = <<>>
    /\ renders = 0

NextInject ==
    \/ REPLACE_CITY_NAMES_JS /\ UNCHANGED <<tvars, dvars, rvars, cvars>>
    \/ ObserverCallback /\ UNCHANGED <<tvars, dvars, rvars, cvars>>
    \/ \E i \in 1..Len(el_textContent) : \E text \in RenderTexts(i) :
          Rerender(i, text) /\ UNCHANGED <<tvars, dvars, rvars, cvars>>

SpecInject == InitInject /\ [][NextInject]_vars

\* _categorize_weather is about to be called with any of the texts.
InitCategorize ==
    /\ InitPipeline
    /\ InitNoPage
    /\ c_alt \in AltTexts
    /\ c_condition = <<>>
    /\ c_recondition = <<>>
    /\ c_apps = 0

NextCategorize ==
    \/ Categorize /\ UNCHANGED <<tvars, dvars, rvars, ivars>>
    \/ CategorizeAgain /\ UNCHANGED <<tvars, dvars, rvars, ivars>>

SpecCategorize == InitCategorize /\ [][NextCategorize]_vars

NextTranslate ==
    \/ \E terms \in TermLists : TranslateEnter(terms) /\ UNCHANGED <<dvars, rvars, cvars, ivars>>
    \/ TranslateRound /\ UNCHANGED <<dvars, rvars, cvars, ivars>>

\* The operations of a TelegramClient, called in any order by the tasks of
\* one event loop: a call may begin while another is suspended in an await.
ClientClose ==
    /\ closeCalls < MaxReports
    /\ CloseEnter
    /\ UNCHANGED <<dpc, d_summary, d_photo, report_result, sendCalls, transport,
                   channel, reports>>

ClientSessionClosed ==
    /\ CloseSessionReturns
    /\ UNCHANGED <<dpc, d_summary, d_photo, report_result, sendCalls, transport,
                   channel, reports>>

ClientSessionCloseRaises ==
    /\ CloseSessionRaises
    /\ UNCHANGED <<dpc, d_summary, d_photo, report_result, sendCalls, transport,
                   channel, reports>>

NextDeliver ==
    \/ \E s \in Summaries, p \in Photos : ReportEnter(s, p) /\ UNCHANGED <<tvars, rvars, cvars, ivars>>
    \/ TransportOk /\ UNCHANGED <<tvars, rvars, cvars, ivars>>
    \/ TransportRaises /\ UNCHANGED <<tvars, rvars, cvars, ivars>>
    \/ ClientClose /\ UNCHANGED <<tvars, rvars, cvars, ivars>>
    \/ ClientSessionClosed /\ UNCHANGED <<tvars, rvars, cvars, ivars>>
    \/ ClientSessionCloseRaises /\ UNCHANGED <<tvars, rvars, cvars, ivars>>

SpecDeliver == Init /\ [][NextDeliver]_vars

\* One run of the program: main, run.py lines 106-117.
Next ==
    \/ RunStart
    \/ \E ok \in BOOLEAN : ProcessPlaywrightStart(ok)
    \/ \E ok \in BOOLEAN : ProcessLaunch(ok)
    \/ \E ok \in BOOLEAN : ProcessNewContext(ok)
    \/ \E ok \in BOOLEAN : ProcessNewPage(ok)
    \/ \E ok \in BOOLEAN : ProcessGoto(ok)
    \/ \E ok \in BOOLEAN : ProcessWaitForSelector(ok)
    \/ ProcessScrapeRaises
    \/ \E plates \in PlateLists : ProcessScrape(plates)
    \/ ProcessTranslateRound
    \/ ProcessInjectRaises
    \/ \E c \in BOOLEAN : ProcessInject(c)
    \/ ProcessReadNamesRaises
    \/ ProcessReadNames
    \/ \E i \in 1..Len(el_textContent) : \E text \in RenderTexts(i) :
          PageRerender(i, text)
    \/ PageObserverCallback
    \/ \E ok \in BOOLEAN : ProcessAddStyleTag(ok)
    \/ \E ok \in BOOLEAN : ProcessScreenshot(ok)
    \/ ProcessBrowserCloseRaises
    \/ ProcessBrowserClose
    \/ ProcessUnwind
    \/ ProcessPlaywrightStopRaises
    \/ ProcessReturns
    \/ RunDraftRaises
    \/ \E text \in DraftTexts : RunDraft(text)
    \/ RunRephraseRaises
    \/ \E text \in RephraseTexts : RunRephrase(text)
    \/ \E ok \in BOOLEAN : RunTransport(ok)
    \/ RunFinally
    \/ \E ok \in BOOLEAN : RunSessionClose(ok)

Spec == Init /\ [][Next]_vars

SpecTranslate == Init /\ [][NextTranslate]_vars

-----------------------------------------------------------------------------
(* Claims about a run of the program, checked under Spec *)

\* C7: when the scrape returns zero tiles, process raises: translate is not
\* called, no screenshot is taken, nothing is sent, and the run ends as
\* failed (run returns False, main exits with status 1).
ExtractionFatalEmpty ==
    tiles_found = 0 =>
        /\ pc \in {"unwind", "finally", "exited"}
        /\ run_result = FALSE
        /\ \A c \in {"translate", "chat_translate", "screenshot",
                     "send_weather_report"} : c \notin Range(trace)
        /\ tpc = "idle" /\ chatCalls = 0
        /\ screenshot = ""
        /\ sendCalls = <<>> /\ transport = <<>> /\ channel = <<>>
        /\ pc = "exited" => exit_status = 1

\* C7 witness: a run whose scrape found no tile has ended.
ExtractionFatalEmptyWitness ==
    /\ tiles_found = 0
    /\ pc = "exited"
    /\ trace = <<"playwright_start", "launch", "new_context", "new_page", "goto",
                 "wait_for_selector", "scrape", "playwright_stop", "close">>

\* The number of close entries in a call log.
RECURSIVE Count(_, _)
Count(log, c) ==
    IF log = <<>> THEN 0
    ELSE (IF Head(log) = c THEN 1 ELSE 0) + Count(Tail(log), c)

\* C8: every run calls the Telegram close exactly once, as its last call:
\* not before the stages of run are over, and once when main has finished,
\* whatever the outcome of the run; when close returned the client has no
\* Bot any more.
ReleaseExactlyOnce ==
    /\ pc \notin {"session_close", "exited", "crashed"} =>
         closeCalls = 0 /\ Count(trace, "close") = 0
    /\ pc \in {"session_close", "exited", "crashed"} =>
         /\ closeCalls = 1
         /\ Count(trace, "close") = 1
         /\ trace[Len(trace)] = "close"
    /\ pc = "exited" => bot = "None" /\ closing = 0

\* C8 witness: a run that failed in the rephrase call, after the browser was
\* closed, has ended with the Telegram client closed.
ReleaseExactlyOnceWitness ==
    /\ pc = "exited"
    /\ ~run_result
    /\ closeCalls = 1
    /\ Len(trace) >= 2
    /\ trace[Len(trace) - 1] = "chat_rephrase"
    /\ sendCalls = <<>>

\* C9 as claimed: a run that does not return True, because it returns False
\* or because an exception leaves it, has put no message into the chat, and
\* main exits with a non-zero status.
FailedRunSendsNothing ==
    /\ (pc \in {"finally", "session_close", "exited"} /\ ~run_result) =>
          /\ channel = <<>>
          /\ pc = "exited" => exit_status # 0
    /\ pc = "crashed" => channel = <<>> /\ exit_status # 0

\* C10: when the draft is empty, rephrase_weather_summary returns the empty
\* text without a call to chat: the run goes on to delivery with an empty
\* summary and no rephrase call in its log.
EmptyRephraseNoCall ==
    ("send_weather_report" \in Range(trace) /\ initial_summary = "") =>
        /\ Count(trace, "chat_rephrase") = 0
        /\ summary = ""
        /\ d_summary = ""

\* C10 witness: a run with an empty draft has reached delivery.
EmptyRephraseNoCallWitness ==
    /\ initial_summary = ""
    /\ Count(trace, "chat_draft") = 1
    /\ "send_weather_report" \in Range(trace)
    /\ pc = "exited"

\* The stage a logged call belongs to: 1 extraction (translation embedded),
\* 3 draft summary, 4 rephrase, 5 delivery, 6 the release of the client.
\* Stage 2, categorization, makes no call; processed_data is its output.
StageOf(c) ==
    IF c = "chat_draft" THEN 3
    ELSE IF c = "chat_rephrase" THEN 4
    ELSE IF c = "send_weather_report" THEN 5
    ELSE IF c = "close" THEN 6
    ELSE 1

StageOrderInv ==
    /\ \A i, j \in 1..Len(trace) : i < j => StageOf(trace[i]) <= StageOf(trace[j])
    /\ \A c \in {"playwright_start", "launch", "new_context", "new_page", "goto",
                  "wait_for_selector", "scrape", "translate", "inject",
                  "add_style_tag", "screenshot", "browser_close",
                  "playwright_stop", "chat_draft", "chat_rephrase",
                  "send_weather_report"} :
          Count(trace, c) <= 1
    /\ reports <= 1
    /\ processed_data # <<>> =>
          /\ "browser_close" \in Range(trace)
          /\ screenshot = "png"
          /\ tpc = "returned"
          /\ weather_data # <<>>
          /\ Len(processed_data) = Len(weather_data)
    /\ (pc = "chat_draft" \/ "chat_draft" \in Range(trace)) => processed_data # <<>>
    /\ (pc = "chat_rephrase" \/ "chat_rephrase" \in Range(trace)) =>
          "chat_draft" \in Range(trace) /\ initial_summary # ""
    /\ "send_weather_report" \in Range(trace) =>
          /\ "chat_draft" \in Range(trace)
          /\ initial_summary # "" => "chat_rephrase" \in Range(trace)
          /\ reports = 1
    /\ "send_weather_report" \notin Range(trace) =>
          /\ reports = 0 /\ transport = <<>> /\ channel = <<>>
          /\ pc \in {"finally", "exited"} => ~run_result
          /\ pc = "exited" => exit_status = 1

\* C14: the stages of a run go in the order extraction (translation
\* embedded), categorization, draft, rephrase, delivery.  No stage is entered
\* twice, the draft and the rephrase call are made at most once, each stage
\* begins only when the one before it has given its output, and once a stage
\* has failed the only call still made is the release of the Telegram
\* client: the run ends as failed.
StagesInOrder ==
    /\ []StageOrderInv
    /\ [][pc = "unwind" =>
             /\ trace' = Append(trace, "playwright_stop")
             /\ pc' = "finally" /\ ~run_result']_vars
    /\ [][pc = "finally" =>
             /\ trace' = Append(trace, "close")
             /\ pc' \in {"session_close", "exited"}
             /\ run_result' = run_result]_vars
    /\ [][pc = "session_close" =>
             /\ pc' \in {"exited", "crashed"}
             /\ UNCHANGED <<trace, run_result>>]_vars
    /\ [][(pc = "exited" \/ pc = "crashed") =>
             UNCHANGED <<pc, trace, run_result>>]_vars

\* C14 witness: a run failed in the rephrase call, after extraction,
\* categorization and the draft; delivery was not entered.
StagesInOrderWitness ==
    /\ pc = "exited"
    /\ exit_status = 1
    /\ processed_data # <<>>
    /\ initial_summary = "draft"
    /\ Count(trace, "chat_rephrase") = 1
    /\ reports = 0
    /\ trace[Len(trace)] = "close"

\* The places of the tiles with a name, and the k-th of them.
NamedTiles == {i \in 1..Len(raw_data) : raw_data[i].name # ""}

NthNamed(k) ==
    CHOOSE i \in NamedTiles : Cardinality({j \in NamedTiles : j <= i}) = k

RecordsMatchTiles ==
    /\ Len(weather_data) = Cardinality(NamedTiles)
    /\ \A k \in 1..Len(weather_data) :
          LET name == raw_data[NthNamed(k)].name IN
          /\ weather_data[k].jp = name
          /\ weather_data[k].ru = output[name]
          /\ name \in DOMAIN CITY_TRANSLATIONS =>
                weather_data[k].ru = CITY_TRANSLATIONS[name]
          /\ name \notin DOMAIN CITY_TRANSLATIONS =>
                weather_data[k].ru = <<"#", name>>

\* C17: the records process returns are one for every tile with a name, in
\* the order of the tiles; the local name of each is what the mapping of
\* translate gives for its source name, which is the accepted translation,
\* or the source name itself when there is none.
OneRecordPerNamedTile ==
    /\ weather_data # <<>> => RecordsMatchTiles
    /\ (pc \in {"chat_draft", "chat_rephrase", "deliver"}
          \/ "chat_draft" \in Range(trace)) =>
          weather_data # <<>> /\ RecordsMatchTiles

\* C17 witness: of two tiles one had no name; the other one's name got no
\* translation in three rounds and its record carries the source name.
OneRecordPerNamedTileWitness ==
    /\ pc = "chat_draft"
    /\ Len(raw_data) = 2
    /\ Len(weather_data) = 1
    /\ chatCalls = 3
    /\ weather_data[1].jp = "Kobe"
    /\ weather_data[1].ru = <<"#", "Kobe">>

\* Some read of the name texts found a Cyrillic letter.
SomeReadFoundCyrillic ==
    \E i \in 1..Len(name_reads) :
        \E n \in 1..Len(name_reads[i]) : HasCyrillic(name_reads[i][n])

\* C19: after the injection the name texts are read again at most 3 times,
\* and only while no read has found a Cyrillic letter; replace_city_names
\* returns True exactly when some read found one; and when all four reads
\* found none, process goes on to the styles, the screenshot and the
\* records.
VerificationBounded ==
    /\ Len(name_reads) <= 4
    /\ verify_i <= 3
    /\ Count(trace, "read_names") <= 3
    /\ \A i \in 1..(Len(name_reads) - 1) :
          \A n \in 1..Len(name_reads[i]) : ~HasCyrillic(name_reads[i][n])
    /\ pc = "read_names" =>
          /\ Len(name_reads) = verify_i + 1
          /\ Len(name_reads) <= 3
          /\ ~SomeReadFoundCyrillic
    /\ pc \in {"add_style_tag", "screenshot", "browser_close"} =>
          /\ Len(name_reads) = verify_i + 1
          /\ dom_ok <=> SomeReadFoundCyrillic
          /\ ~dom_ok => Len(name_reads) = 4
    /\ (verify_i = 3 /\ ~dom_ok) =>
          /\ pc # "read_names"
          /\ pc # "add_style_tag" => "add_style_tag" \in Range(trace)
          /\ pc \in {"chat_draft", "chat_rephrase", "deliver"} =>
                screenshot = "png" /\ weather_data # <<>>

\* C19 witness: no read found a Cyrillic name, and the run delivered its
\* report all the same.
VerificationBoundedWitness ==
    /\ verify_i = 3
    /\ Count(trace, "read_names") = 3
    /\ ~dom_ok
    /\ pc = "exited"
    /\ run_result
    /\ channel # <<>>

\* C20 as claimed: a run that came to the injection goes on to the
\* screenshot, whether or not the page calls of the injection, of the
\* verification reads or of the style step failed.
DegradedStepsContinue ==
    (pc \in {"finally", "exited"} /\ "inject" \in Range(trace)) =>
        "screenshot" \in Range(trace)

\* C21 as claimed: the payload of the draft call has one entry for every
\* record given to build_weather_summary, and the entry holds the condition
\* _categorize_weather derived for that record.
PayloadCarriesCondition ==
    payload # <<>> =>
        /\ Len(payload) = Len(processed_data)
        /\ \A i \in 1..Len(payload) :
              /\ "condition" \in DOMAIN payload[i]
              /\ payload[i].condition = processed_data[i].condition

-----------------------------------------------------------------------------
(* Claims about the injection script, checked under SpecInject *)

\* C22 as claimed: with the same mapping and no re-render by the page,
\* every apply() after the first leaves each name element with the text it
\* had after the first and writes nothing to the document, so that no
\* observer callback is left waiting because of the injection's own writes;
\* and the container never has more than one observer.
InjectionQuiesces ==
    /\ observers <= 1
    /\ renders = 0 =>
          /\ applies >= 2 => (el_textContent = text_first /\ writes = 0)
          /\ ~pending

-----------------------------------------------------------------------------
(* Claims about send_weather_report, checked under SpecDeliver *)

\* C4: when the combined send (the image with the summary as caption) has
\* failed and the summary is not empty, send_weather_report makes exactly
\* two further send calls, the image without caption and then the summary
\* as a text message, and returns True; with image bytes present each of
\* the three calls reaches the Bot API, in that order.
DeliveryFallback ==
    (dpc = "done" /\ d_summary # "" /\ ~sendCalls[1].ret) =>
        /\ Len(sendCalls) = 3
        /\ sendCalls[2].call =
             [op |-> "send_photo", photo |-> <<d_photo>>, text |-> <<>>]
        /\ sendCalls[3].call =
             [op |-> "send_message", photo |-> <<>>, text |-> <<d_summary>>]
        /\ report_result = TRUE
        /\ d_photo # "" =>
             transport =
               << [op |-> "send_photo", photo |-> <<d_photo>>, text |-> <<d_summary>>],
                  sendCalls[2].call, sendCalls[3].call >>

\* C4 witness: a report whose combined send was refused by the Bot API has
\* returned after the two fallback sends, both of which failed as well.
DeliveryFallbackWitness ==
    /\ dpc = "done"
    /\ d_summary # "" /\ d_photo # ""
    /\ Len(sendCalls) = 3
    /\ \A i \in 1..3 : ~sendCalls[i].ret
    /\ report_result = TRUE

\* C5 as claimed: with an empty summary or empty image bytes,
\* send_weather_report makes no call into the Bot API and returns False.
EmptyInputShortCircuits ==
    (dpc # "idle" /\ (d_summary = "" \/ d_photo = "")) =>
        /\ transport = <<>>
        /\ dpc = "done" => report_result = FALSE

PhotoSent ==
    \E i \in 1..Len(sendCalls) :
        sendCalls[i].ret /\ sendCalls[i].call.op = "send_photo"

TextSent ==
    \E i \in 1..Len(sendCalls) :
        sendCalls[i].ret /\ sendCalls[i].call.text = <<d_summary>>

\* C6 as claimed: send_weather_report returns True exactly when the photo and
\* the summary text (as caption or as a message of its own) were both sent
\* successfully.
ReportResultFaithful ==
    dpc = "done" => (report_result <=> (PhotoSent /\ TextSent))

-----------------------------------------------------------------------------
(* Claims about translate, checked under SpecTranslate *)

\* C1 as claimed: a translate call to which the generation capability gave
\* a response in every round ends by returning a mapping whose key set is
\* exactly the set of the input terms, whatever the responses were: it does
\* not end without a mapping, and no term is dropped or added.
TranslateTotal ==
    /\ tpc = "returned" => DOMAIN output = Range(jp_terms)
    /\ ~(tpc = "raised" /\ chatErrors = 0)

\* C2 as claimed: after a translate call that returned, every mapping the
\* cache held when the call began is still there with the same value.
CacheMonotonic ==
    tpc = "returned" =>
        \A k \in DOMAIN cacheAtCall :
            /\ k \in DOMAIN CITY_TRANSLATIONS
            /\ CITY_TRANSLATIONS[k] = cacheAtCall[k]

\* C3: every value the cache holds, seeded or learned, contains at least
\* one Cyrillic letter, in every state any sequence of translate calls
\* reaches.
CacheScriptValid ==
    \A k \in DOMAIN CITY_TRANSLATIONS : HasCyrillic(CITY_TRANSLATIONS[k])

\* C3 witness: a call that rejected a candidate has returned and left a
\* learned entry in the cache.
CacheScriptValidWitness ==
    /\ tpc = "returned"
    /\ rejected
    /\ \E k \in DOMAIN CITY_TRANSLATIONS : k \notin SeedKeys

\* The unknown input terms of the current call that have no accepted
\* translation yet: not in the cache when the call began, not in result.
Unresolved ==
    {t \in Range(jp_terms) :
        t # "" /\ t \notin DOMAIN cacheAtCall /\ t \notin DOMAIN result}

\* C13 as claimed: a chat call that raises ends its round only.  The error
\* does not leave translate: either the next attempt begins with the same
\* unresolved terms, or translate returns a mapping of all the input terms.
ChatErrorAbortsRoundOnly ==
    [][chatErrors' > chatErrors =>
         \/ tpc' = "chat" /\ missing' = missing
         \/ tpc' = "returned" /\ DOMAIN output' = Range(jp_terms)]_vars

\* C15 as claimed: the request of every round holds all the unknown input
\* terms that have no accepted translation yet, a term the last response
\* left out included, and the rounds go on until every such term is accepted
\* or the attempts are used up.
RoundRequestsAllUnresolved ==
    /\ tpc = "chat" => Unresolved \subseteq Range(missing)
    /\ (tpc = "returned" /\ chatCalls \in 1..max_retries) =>
          \A t \in Range(jp_terms) :
              t # "" => t \in DOMAIN CITY_TRANSLATIONS

\* C16 as claimed: a translate call makes at most max_retries + 1 = 3 chat
\* calls, awaits a further one only while an unknown input term has no
\* accepted translation, and is over once the third has returned.
BoundedAttempts ==
    /\ chatCalls <= max_retries + 1
    /\ chatCalls <= 3
    /\ tpc = "chat" => Unresolved # {}
    /\ chatCalls = max_retries + 1 => tpc # "chat"

\* C18: when every input term is empty or was a key of the cache when the
\* call began, translate returns without a chat call, the mapping gives
\* every cached term its cached value, and the cache is as it was.
CachedOnlyNoCall ==
    (tpc # "idle" /\ \A t \in Range(jp_terms) : t = "" \/ t \in DOMAIN cacheAtCall) =>
        /\ tpc = "returned"
        /\ chatCalls = 0
        /\ CITY_TRANSLATIONS = cacheAtCall
        /\ \A t \in Range(jp_terms) \cap DOMAIN cacheAtCall :
              output[t] = cacheAtCall[t]

\* C18 witness: a call with the empty term and a term an earlier call had
\* learned has returned at once.
CachedOnlyNoCallWitness ==
    /\ tpc = "returned"
    /\ chatCalls = 0
    /\ Range(jp_terms) = {"", "Kobe"}
    /\ "Kobe" \in DOMAIN cacheAtCall
    /\ output["Kobe"] = <<"K", "o">>

\* C23: a round whose response has no JSON object to load (no delimiters,
\* or text that does not parse) counts as one attempt and changes nothing
\* else: no error leaves translate, and either the next attempt begins with
\* the same missing terms and the same accepted translations, or, the
\* attempts being used up, translate commits what it had accepted and
\* returns, the terms still missing mapped to themselves.
ParseFailureNotFatal ==
    [][(parse_failed' /\ chatCalls' = chatCalls + 1) =>
         /\ tpc' \in {"chat", "returned"}
         /\ tpc' = "chat" =>
               /\ attempt' = attempt + 1
               /\ missing' = missing
               /\ result' = result
               /\ CITY_TRANSLATIONS' = CITY_TRANSLATIONS
         /\ tpc' = "returned" =>
               /\ attempt = max_retries + 1
               /\ \A k \in DOMAIN CITY_TRANSLATIONS' :
                     CITY_TRANSLATIONS'[k] =
                       IF k \in DOMAIN result THEN result[k] ELSE CITY_TRANSLATIONS[k]
               /\ DOMAIN CITY_TRANSLATIONS' = DOMAIN CITY_TRANSLATIONS \cup DOMAIN result
               /\ DOMAIN output' = Range(jp_terms)
               /\ \A t \in Range(missing) \cap Range(jp_terms) :
                     t \notin DOMAIN CITY_TRANSLATIONS' => output'[t] = <<"#", t>>]_vars

\* C23 witness: the second round of a call failed to parse; the first had
\* accepted a translation and rejected another, and both are as they were.
ParseFailureNotFatalWitness ==
    /\ parse_failed
    /\ tpc = "chat"
    /\ chatCalls = 2
    /\ accepted /\ rejected
    /\ result # EmptyMap
    /\ missing # <<>>

\* C24 as claimed: the keys a translate call adds to the cache, and the
\* terms it asks for in any round, are unknown terms of its input; a key
\* that only the response held is neither stored nor asked for.
OnlyRequestedKeysStored ==
    LET unknown == {t \in Range(jp_terms) : t # "" /\ t \notin DOMAIN cacheAtCall} IN
    /\ (DOMAIN CITY_TRANSLATIONS \ DOMAIN cacheAtCall) \subseteq unknown
    /\ tpc = "chat" => Range(missing) \subseteq unknown

\* C25: the cache is written only when translate returns.  While a call is
\* in its rounds, and after a call that ended by raising, the cache is what
\* it was when the call began: what earlier rounds had accepted is lost.
CommitOnlyAtEnd ==
    tpc \in {"chat", "raised"} => CITY_TRANSLATIONS = cacheAtCall

\* C25 witness: a call whose first round accepted a translation was ended
\* by a chat error in a later round.
CommitOnlyAtEndWitness ==
    /\ tpc = "raised"
    /\ chatErrors = 1
    /\ chatCalls >= 2
    /\ accepted
    /\ \E t \in Range(jp_terms) : t # "" /\ t \notin DOMAIN CITY_TRANSLATIONS

-----------------------------------------------------------------------------
(* Claims about _categorize_weather, checked under SpecCategorize *)

\* The patterns in the order the claims give them (storm, snow, the three
\* compound transitions, rain, sunny, cloudy), each with its phrase.
PatternOrder ==
    << [pats |-> {<<RAI>>},  phrase |-> <<"g","r","o","z","a">>],
       [pats |-> {<<YUKI>>}, phrase |-> <<"s","n","e","g">>],
       [pats |-> {<<HARE, RE, TOKI, NOMA, KU, MO, RI>>},
        phrase |-> <<"s","o","l","n","e","ch","n","o",","," ",
                     "v","r","e","m","e","n","a","m","i"," ",
                     "o","b","l","a","ch","n","o">>],
       [pats |-> {<<KU, MO, RI, TOKI, NOMA, AME>>},
        phrase |-> <<"o","b","l","a","ch","n","o",","," ",
                     "v","r","e","m","e","n","a","m","i"," ",
                     "d","o","zh","d","soft">>],
       [pats |-> {<<AME, TOKI, NOMA, YA, MU>>},
        phrase |-> <<"d","o","zh","d","soft"," ",
                     "s"," ","p","r","o","ya","s","n","e","n","i","ya","m","i">>],
       [pats |-> {<<AME>>},  phrase |-> <<"d","o","zh","d","soft">>],
       [pats |-> {<<HARE>>}, phrase |-> <<"s","o","l","n","e","ch","n","o">>],
       [pats |-> {<<KU, MO>>, <<DON>>},
        phrase |-> <<"o","b","l","a","ch","n","o">>] >>

CanonicalPhrases == {PatternOrder[i].phrase : i \in 1..Len(PatternOrder)}

\* The places of PatternOrder with a pattern that occurs in the text.
Matching(text) ==
    {i \in 1..Len(PatternOrder) :
        \E q \in 1..(Len(text) + 1), pat \in PatternOrder[i].pats :
            /\ q + Len(pat) - 1 <= Len(text)
            /\ SubSeq(text, q, q + Len(pat) - 1) = pat}

\* C11: classification is stable after one application.  A canonical phrase
\* matches no icon pattern; a canonical phrase and a text that matches no
\* pattern are returned unchanged; and whatever text the function was given,
\* applying it to its own result returns that result again.
ClassifyStable ==
    /\ \A ph \in CanonicalPhrases : Matching(ph) = {}
    /\ (c_apps >= 1 /\ (c_alt \in CanonicalPhrases \/ Matching(c_alt) = {})) =>
          c_condition = c_alt
    /\ c_apps = 2 => c_recondition = c_condition

\* C11 witness: an icon text with a pattern was classified, and the phrase
\* it gave was classified again to itself.
ClassifyStableWitness ==
    /\ c_apps = 2
    /\ Matching(c_alt) # {}
    /\ c_condition \in CanonicalPhrases
    /\ c_condition # c_alt
    /\ c_recondition = c_condition

\* C12: the function returns the phrase of the earliest pattern of the
\* order that occurs in the text, so that a text with a compound pattern and
\* neither storm nor snow never gets the phrase of a simple pattern; a text
\* with no pattern is returned unchanged.
FirstMatchWins ==
    c_apps >= 1 =>
        LET ms == Matching(c_alt) IN
        /\ ms = {} => c_condition = c_alt
        /\ ms # {} =>
              c_condition =
                PatternOrder[CHOOSE i \in ms : \A j \in ms : i <= j].phrase
        /\ (ms \cap {3, 4, 5} # {} /\ ms \cap {1, 2} = {}) =>
              c_condition \notin {PatternOrder[6].phrase, PatternOrder[7].phrase,
                                  PatternOrder[8].phrase}

\* C12 witness: a text with the sunny-then-cloudy compound and, apart from
\* it, the rain pattern was classified as the compound.
FirstMatchWinsWitness ==
    /\ c_apps >= 1
    /\ Matching(c_alt) = {3, 6, 7, 8}
    /\ c_condition = PatternOrder[3].phrase

====
